---- MODULE Spec2Model ----
(***************************************************************************)
(* Model of xdis/opcodes/format.py: the extended formatting rules that     *)
(* reconstruct an expression text for one instruction from a window of     *)
(* instructions (index 0 = the decorated instruction, then its             *)
(* predecessors in program order at increasing index).                     *)
(*                                                                         *)
(* Python values are modelled as follows.                                  *)
(*   str            a TLA+ string; concatenation is \o                     *)
(*   None (a str)   the string None                                        *)
(*   None (an int)  the integer NoneOffset                                 *)
(*   list index     0-based, read with At(instructions, i)                 *)
(*   IndexError     the index IndexError / the result RaisedResult         *)
(* An instruction is a record with the fields the rules read:              *)
(*   opname, opcode (the opname stands for its numeric opcode), arg,       *)
(*   argval (as str() prints it; for a count operand arg = argval),        *)
(*   argrepr, tos_str, offset, start_offset, is_jump_target.               *)
(***************************************************************************)
EXTENDS Integers, Sequences, FiniteSets, TLC

VARIABLES opc, instructions, result

vars == <<opc, instructions, result>>

\* ---------------------------------------------------------------- bounds

\* Longest window handed to a rule.
MaxLen == 5

\* Deepest window index at which a predecessor is a branch target, an already
\* folded expression or a variable-arity instruction.
NearDepth == 2

\* Largest argument count carried by a variable-arity instruction.
MaxArgc == 2

\* ------------------------------------------------------ Python's values

None == "<None>"

NoneOffset == 0 - 1

IndexError == 0 - 1

At(seq, i) == seq[i + 1]

Reversed(seq) == [n \in 1..Len(seq) |-> seq[Len(seq) + 1 - n]]

RECURSIVE Join(_, _)
Join(sep, seq) ==
  IF Len(seq) = 0 THEN ""
  ELSE IF Len(seq) = 1 THEN seq[1]
  ELSE seq[1] \o sep \o Join(sep, Tail(seq))

Truthy(s) == s # None /\ s # ""

IntStr(n) == <<"0", "1", "2", "3", "4", "5", "6", "7", "8", "9">>[n + 1]

\* The (text, offset) pair a rule returns.
Pair(text, offset) == [kind |-> "pair", text |-> text, offset |-> offset]

\* A rule that falls off its end returns Python's None instead of a pair.
NoneResult == [kind |-> "None", text |-> "", offset |-> NoneOffset]

\* A rule left by an exception (IndexError).
RaisedResult == [kind |-> "raise", text |-> "", offset |-> NoneOffset]

\* No rule has been applied to the window yet.
Idle == [kind |-> "idle", text |-> "", offset |-> NoneOffset]

\* ------------------------------------------------------- scalar helpers

format_IS_OP(arg) == IF arg = 0 THEN "is" ELSE "is not"

format_RAISE_VARARGS_older(argc) ==
  CASE argc = 0 -> "reraise"
    [] argc = 1 -> "exception"
    [] argc = 2 -> "exception, parameter"
    [] argc = 3 -> "exception, parameter, traceback"

get_instruction_arg(inst, argval) ==
  LET av == IF argval = None THEN inst.argrepr ELSE argval
  IN IF inst.tos_str # None THEN inst.tos_str ELSE av

\* repr_text is repr(obj), which the decoder also stores as argrepr.
safe_repr_max_len == 20

safe_repr(repr_text) ==
  IF Len(repr_text) > safe_repr_max_len
  THEN SubSeq(repr_text, 1, safe_repr_max_len) \o "..."
  ELSE repr_text

RECURSIVE skip_cache(_, _)
skip_cache(insts, i) ==
  IF i >= Len(insts) THEN IndexError
  ELSE IF At(insts, i).opname = "CACHE" /\ i < Len(insts)
       THEN skip_cache(insts, i + 1)
       ELSE i

\* The inline loop `while instructions[i].opname == "CACHE": i += 1`.
RECURSIVE cache_loop(_, _)
cache_loop(insts, i) ==
  IF i >= Len(insts) THEN IndexError
  ELSE IF At(insts, i).opname = "CACHE" THEN cache_loop(insts, i + 1) ELSE i

\* `for i in range(1, len(instructions)): if instructions[i].offset ==
\* start_offset: break`: the first match, else the last index of the range;
\* i keeps its value i0 when the range is empty.
offset_scan(insts, start_offset, i0) ==
  LET hits == {n \in 1..(Len(insts) - 1) : At(insts, n).offset = start_offset}
  IN IF Len(insts) <= 1 THEN i0
     ELSE IF hits = {} THEN Len(insts) - 1
     ELSE CHOOSE n \in hits : \A m \in hits : n <= m

\* Python's `fmt_str % args` for the conversions the rules use: %s takes the
\* next argument, %% is a literal per cent sign.
RECURSIVE percent_format(_, _)
percent_format(fmt_str, args) ==
  IF Len(fmt_str) = 0 THEN ""
  ELSE IF Len(fmt_str) >= 2 /\ SubSeq(fmt_str, 1, 2) = "%s"
       THEN Head(args) \o percent_format(SubSeq(fmt_str, 3, Len(fmt_str)), Tail(args))
  ELSE IF Len(fmt_str) >= 2 /\ SubSeq(fmt_str, 1, 2) = "%%"
       THEN "%" \o percent_format(SubSeq(fmt_str, 3, Len(fmt_str)), args)
  ELSE SubSeq(fmt_str, 1, 1) \o percent_format(SubSeq(fmt_str, 2, Len(fmt_str)), args)

\* str.startswith
startswith(s, prefix) ==
  Len(s) >= Len(prefix) /\ SubSeq(s, 1, Len(prefix)) = prefix

\* ------------------------------------------------- lookback: get_arglist

\* The inner `while j < len(instructions) - 1` scan of get_arglist: the new
\* value of i (i itself when the scan ends without a match).
RECURSIVE arglist_scan(_, _, _, _)
arglist_scan(insts, j, start_offset, i) ==
  IF j < Len(insts) - 1
  THEN LET inst2 == At(insts, j + 1)
       IN IF inst2.offset = start_offset
          THEN IF inst2.start_offset = NoneOffset \/ inst2.start_offset = start_offset
               THEN j + 1
               ELSE arglist_scan(insts, j + 1, inst2.start_offset, i)
          ELSE arglist_scan(insts, j + 1, start_offset, i)
  ELSE i

ArglistResult(arglist, arg_count, i, raised) ==
  [arglist |-> arglist, arg_count |-> arg_count, i |-> i, raised |-> raised]

\* The `while arg_count > 0` loop of get_arglist.
RECURSIVE arglist_loop(_, _, _, _)
arglist_loop(insts, i, arg_count, arglist) ==
  IF arg_count > 0
  THEN IF i + 1 >= Len(insts)
       THEN ArglistResult(arglist, arg_count, i + 1, TRUE)
       ELSE LET inst == At(insts, i + 1)
                arg == IF Truthy(inst.tos_str) THEN inst.tos_str ELSE inst.argrepr
            IN IF arg = None
               THEN ArglistResult(arglist, arg_count - 1, i + 1, FALSE)
               ELSE IF inst.is_jump_target
               THEN ArglistResult(Append(arglist, arg), arg_count - 1, i + 2, FALSE)
               ELSE arglist_loop(
                      insts,
                      IF inst.start_offset # NoneOffset
                      THEN arglist_scan(insts, i + 1, inst.start_offset, i + 1)
                      ELSE i + 1,
                      arg_count - 1,
                      Append(arglist, arg))
  ELSE ArglistResult(arglist, arg_count, i, FALSE)

\* The parameter i is overwritten by `i = 0` before it is read.
get_arglist(insts, i, arg_count) == arglist_loop(insts, 0, arg_count, <<>>)

\* ------------------------------------------------------ formatting rules

extended_format_binary_op(o, insts, fmt_str) ==
  LET i0 == skip_cache(insts, 1)
  IN IF i0 = IndexError THEN RaisedResult
     ELSE
     LET stack_inst1 == At(insts, i0)
     IN IF stack_inst1.tos_str # None \/ stack_inst1.opcode \in o.operator_set
        THEN
        LET arg1 == IF stack_inst1.tos_str # None
                    THEN stack_inst1.tos_str ELSE stack_inst1.argrepr
            arg1_start_offset == stack_inst1.start_offset
            i == IF arg1_start_offset # NoneOffset
                 THEN offset_scan(insts, arg1_start_offset, i0) ELSE i0
            j == skip_cache(insts, i + 1)
        IN IF j = IndexError THEN RaisedResult
           ELSE
           LET stack_inst2 == At(insts, j)
               arg2 == get_instruction_arg(stack_inst2, stack_inst2.argrepr)
           IN IF stack_inst1.opcode \in o.operator_set
                 /\ stack_inst2.opcode \in o.operator_set
              THEN Pair(percent_format(fmt_str, <<arg2, arg1>>), stack_inst2.start_offset)
              ELSE IF stack_inst2.start_offset # NoneOffset
              THEN Pair(percent_format(fmt_str, <<IF arg2 = "" THEN "..." ELSE arg2, arg1>>),
                        stack_inst2.start_offset)
              ELSE Pair(percent_format(fmt_str, <<"...", arg1>>), NoneOffset)
        ELSE Pair("", NoneOffset)

extended_format_infix_binary_op(o, insts, op_str) ==
  LET i0 == cache_loop(insts, 1)
  IN IF i0 = IndexError THEN RaisedResult
     ELSE
     LET stack_arg1 == At(insts, i0)
     IN IF stack_arg1.tos_str # None \/ stack_arg1.opcode \in o.operator_set
        THEN
        LET arg1 == IF stack_arg1.tos_str = None
                    THEN At(insts, 1).argrepr
                    ELSE "(" \o stack_arg1.tos_str \o ")"
            arg1_start_offset == At(insts, 1).start_offset
            i == IF arg1_start_offset # NoneOffset
                 THEN offset_scan(insts, arg1_start_offset, i0) ELSE i0
            j == cache_loop(insts, i + 1)
        IN IF j = IndexError THEN RaisedResult
           ELSE
           LET inst_j == At(insts, j)
               arg2 == IF inst_j.tos_str # None THEN inst_j.tos_str ELSE inst_j.argrepr
           IN IF inst_j.opcode \in o.operator_set
                 /\ At(insts, i).opcode \in o.operator_set
              THEN Pair(arg2 \o op_str \o arg1, inst_j.start_offset)
              ELSE IF inst_j.start_offset # NoneOffset
              THEN Pair((IF arg2 = "" THEN "..." ELSE "(" \o arg2 \o ")") \o op_str \o arg1,
                        inst_j.start_offset)
              ELSE Pair("..." \o op_str \o arg1, NoneOffset)
        ELSE Pair("", NoneOffset)

extended_format_store_op(o, insts) ==
  IF Len(insts) < 2 THEN RaisedResult
  ELSE
  LET inst == At(insts, 0)
      prev_inst == At(insts, 1)
  IN IF prev_inst.opname = "IMPORT_NAME"
     THEN Pair(inst.argval \o " = import_module(" \o inst.argval \o ")", prev_inst.offset)
     ELSE IF prev_inst.opname = "IMPORT_FROM"
     THEN Pair(inst.argval \o " = import_module(" \o prev_inst.argval \o ")",
               prev_inst.offset)
     ELSE IF prev_inst.opcode \in o.operator_set
     THEN IF prev_inst.opname # "LOAD_CONST"
             /\ prev_inst.opcode \in (o.VARGS_OPS \cup o.NARGS_OPS)
             /\ prev_inst.tos_str = None
          THEN Pair("", prev_inst.offset)
          ELSE
          LET argval0 == IF prev_inst.opname = "LOAD_CONST"
                         THEN safe_repr(prev_inst.argrepr) ELSE prev_inst.argval
              argval == get_instruction_arg(prev_inst, argval0)
          IN IF startswith(prev_inst.opname, "INPLACE_")
             THEN Pair(argval, prev_inst.start_offset)
             ELSE Pair(inst.argval \o " = " \o argval, prev_inst.start_offset)
     ELSE Pair("", prev_inst.offset)

extended_format_ternary_op(o, insts, fmt_str) ==
  LET i0 == skip_cache(insts, 1)
  IN IF i0 = IndexError THEN RaisedResult
     ELSE
     LET stack_inst1 == At(insts, i0)
     IN IF stack_inst1.tos_str # None \/ stack_inst1.opcode \in o.operator_set
        THEN
        LET arg1 == IF stack_inst1.tos_str # None
                    THEN stack_inst1.tos_str ELSE stack_inst1.argrepr
            arg1_start_offset == stack_inst1.start_offset
            i == IF arg1_start_offset # NoneOffset
                 THEN offset_scan(insts, arg1_start_offset, i0) ELSE i0
            j == skip_cache(insts, i + 1)
        IN IF j = IndexError THEN RaisedResult
           ELSE
           LET stack_inst2 == At(insts, j)
               arg2 == get_instruction_arg(stack_inst2, stack_inst2.argrepr)
           IN IF stack_inst1.opcode \in o.operator_set
                 /\ stack_inst2.opcode \in o.operator_set
              THEN LET k == skip_cache(insts, j + 1)
                   IN IF k = IndexError THEN RaisedResult
                      ELSE
                      LET stack_inst3 == At(insts, k)
                      IN IF stack_inst3.opcode \in o.operator_set
                         THEN Pair(percent_format(fmt_str,
                                     <<arg2, arg1,
                                       get_instruction_arg(stack_inst3, stack_inst3.argrepr)>>),
                                   stack_inst3.start_offset)
                         ELSE Pair(percent_format(fmt_str, <<arg2, arg1, "...">>),
                                   stack_inst2.start_offset)
              ELSE IF stack_inst2.start_offset # NoneOffset
              THEN Pair(percent_format(fmt_str,
                          <<IF arg2 = "" THEN "..." ELSE arg2, arg1, "...">>),
                        stack_inst2.start_offset)
              ELSE Pair(percent_format(fmt_str, <<"...", "...", "...">>), NoneOffset)
        ELSE Pair("", NoneOffset)

extended_format_STORE_SUBSCR(o, insts) ==
  extended_format_ternary_op(o, insts, "%s[%s] = %s")

\* extended_format_unary_op returning the operand's byte offset in place of
\* its logical start offset.
unary_op_operand_offset(o, insts, fmt_str) ==
  IF Len(insts) < 2 THEN RaisedResult
  ELSE
  LET stack_arg == At(insts, 1)
      start_offset == At(insts, 1).offset
  IN IF stack_arg.tos_str # None
     THEN Pair(percent_format(fmt_str, <<stack_arg.tos_str>>), start_offset)
     ELSE IF stack_arg.opcode \in o.operator_set
     THEN Pair(percent_format(fmt_str, <<stack_arg.argrepr>>), start_offset)
     ELSE Pair("", NoneOffset)

extended_format_unary_op(o, insts, fmt_str) ==
  IF Len(insts) < 2 THEN RaisedResult
  ELSE
  LET stack_arg == At(insts, 1)
      start_offset == At(insts, 1).start_offset
  IN IF stack_arg.tos_str # None
     THEN Pair(percent_format(fmt_str, <<stack_arg.tos_str>>), start_offset)
     ELSE IF stack_arg.opcode \in o.operator_set
     THEN Pair(percent_format(fmt_str, <<stack_arg.argrepr>>), start_offset)
     ELSE Pair("", NoneOffset)

extended_format_ATTR(o, insts) ==
  IF Len(insts) < 2 THEN RaisedResult
  ELSE IF At(insts, 1).opcode \in (o.NAME_OPS \cup o.CONST_OPS \cup o.LOCAL_OPS)
  THEN Pair(percent_format("%s.%s", <<At(insts, 1).argrepr, At(insts, 0).argrepr>>),
            At(insts, 1).offset)
  ELSE NoneResult

extended_format_BINARY_ADD(o, insts) ==
  extended_format_infix_binary_op(o, insts, " + ")

extended_format_BINARY_AND(o, insts) ==
  extended_format_infix_binary_op(o, insts, " & ")

extended_format_BINARY_FLOOR_DIVIDE(o, insts) ==
  extended_format_infix_binary_op(o, insts, " // ")

extended_format_BINARY_LSHIFT(o, insts) ==
  extended_format_infix_binary_op(o, insts, " << ")

extended_format_BINARY_MODULO(o, insts) ==
  extended_format_infix_binary_op(o, insts, " %% ")

extended_format_BINARY_MULTIPLY(o, insts) ==
  extended_format_infix_binary_op(o, insts, " * ")

extended_format_BINARY_OR(o, insts) ==
  extended_format_infix_binary_op(o, insts, " | ")

extended_format_BINARY_POWER(o, insts) ==
  extended_format_infix_binary_op(o, insts, " ** ")

extended_format_BINARY_RSHIFT(o, insts) ==
  extended_format_infix_binary_op(o, insts, " >> ")

extended_format_BINARY_SUBTRACT(o, insts) ==
  extended_format_infix_binary_op(o, insts, " - ")

extended_format_BINARY_TRUE_DIVIDE(o, insts) ==
  extended_format_infix_binary_op(o, insts, " / ")

extended_format_BINARY_XOR(o, insts) ==
  extended_format_infix_binary_op(o, insts, " ^ ")

extended_format_BINARY_SUBSCR(o, insts) ==
  extended_format_binary_op(o, insts, "%s[%s]")

extended_format_INPLACE_ADD(o, insts) ==
  extended_format_infix_binary_op(o, insts, " += ")

extended_format_INPLACE_AND(o, insts) ==
  extended_format_infix_binary_op(o, insts, " &= ")

extended_format_INPLACE_FLOOR_DIVIDE(o, insts) ==
  extended_format_infix_binary_op(o, insts, " //= ")

extended_format_INPLACE_LSHIFT(o, insts) ==
  extended_format_infix_binary_op(o, insts, " <<= ")

extended_format_INPLACE_MODULO(o, insts) ==
  extended_format_infix_binary_op(o, insts, " %%= ")

extended_format_INPLACE_MULTIPLY(o, insts) ==
  extended_format_infix_binary_op(o, insts, " *= ")

extended_format_INPLACE_OR(o, insts) ==
  extended_format_infix_binary_op(o, insts, " |= ")

extended_format_INPLACE_POWER(o, insts) ==
  extended_format_infix_binary_op(o, insts, " **= ")

extended_format_INPLACE_RSHIFT(o, insts) ==
  extended_format_infix_binary_op(o, insts, " >>= ")

extended_format_INPLACE_SUBTRACT(o, insts) ==
  extended_format_infix_binary_op(o, insts, " -= ")

extended_format_INPLACE_TRUE_DIVIDE(o, insts) ==
  extended_format_infix_binary_op(o, insts, " /= ")

extended_format_INPLACE_XOR(o, insts) ==
  extended_format_infix_binary_op(o, insts, " ^= ")

extended_format_BUILD_LIST(o, insts) ==
  IF At(insts, 0).arg = 0
  THEN Pair("[]", At(insts, 0).start_offset)
  ELSE Pair("", NoneOffset)

extended_format_BUILD_MAP(o, insts) ==
  IF At(insts, 0).arg = 0
  THEN Pair("{}", At(insts, 0).start_offset)
  ELSE Pair("", NoneOffset)

\* extended_format_BUILD_SET copied from extended_format_BUILD_MAP with the
\* literal left as it was.
BUILD_SET_map_literal(o, insts) ==
  IF At(insts, 0).arg = 0
  THEN Pair("{}", At(insts, 0).start_offset)
  ELSE Pair("", NoneOffset)

extended_format_BUILD_SET(o, insts) ==
  IF At(insts, 0).arg = 0
  THEN Pair("set()", At(insts, 0).start_offset)
  ELSE Pair("", NoneOffset)

\* `assert argc in (2, 3)` leaves the rule by AssertionError.
extended_format_BUILD_SLICE(o, insts) ==
  LET argc == At(insts, 0).arg
      r == get_arglist(insts, 1, argc)
      arglist == [n \in 1..Len(r.arglist) |->
                    IF r.arglist[n] = "None" THEN "" ELSE r.arglist[n]]
  IN IF argc \notin {2, 3} THEN RaisedResult
     ELSE IF r.raised THEN RaisedResult
     ELSE IF r.arg_count = 0
     THEN IF r.i >= Len(insts) THEN RaisedResult
          ELSE Pair(Join(":", Reversed(arglist)), At(insts, r.i).start_offset)
     ELSE IF At(insts, 0).arg = 0
     THEN Pair("set()", At(insts, 0).start_offset)
     ELSE Pair("", NoneOffset)

extended_format_BUILD_TUPLE(o, insts) ==
  LET arg_count == At(insts, 0).arg
      r == get_arglist(insts, 0, arg_count)
  IN IF arg_count = 0 THEN Pair("()", At(insts, 0).start_offset)
     ELSE IF r.raised THEN RaisedResult
     ELSE IF r.arg_count = 0
     THEN IF r.i >= Len(insts) THEN RaisedResult
          ELSE Pair("(" \o Join(", ", Reversed(r.arglist)) \o ")",
                    At(insts, r.i).start_offset)
     ELSE Pair("", NoneOffset)

extended_format_COMPARE_OP(o, insts) ==
  extended_format_infix_binary_op(o, insts, " " \o At(insts, 0).argval \o " ")

\* (major, minor) >= (major, minor), as Python compares tuples.
version_ge(v, w) == v[1] > w[1] \/ (v[1] = w[1] /\ v[2] >= w[2])

extended_format_CALL_FUNCTION(o, insts) ==
  LET call_inst == At(insts, 0)
      r == get_arglist(insts, 0, call_inst.arg)
  IN IF r.raised THEN RaisedResult
     ELSE IF r.arg_count # 0 THEN Pair("", NoneOffset)
     ELSE IF r.i + 1 >= Len(insts) THEN RaisedResult
     ELSE
     LET fn_inst == At(insts, r.i + 1)
         make_function == At(insts, 1).opname = "MAKE_FUNCTION"
         arglist == IF make_function
                    THEN [r.arglist EXCEPT ![1] = At(insts, 2).argval]
                    ELSE r.arglist
         fn_name == IF Truthy(fn_inst.tos_str) THEN fn_inst.tos_str ELSE fn_inst.argrepr
         ordered == IF version_ge(o.version_tuple, <<3, 6>>)
                    THEN Reversed(arglist) ELSE arglist
     IN IF fn_inst.opcode \in o.operator_set
        THEN IF make_function /\ (Len(insts) < 3 \/ Len(r.arglist) = 0)
             THEN RaisedResult
             ELSE Pair(fn_name \o "(" \o Join(", ", ordered) \o ")", fn_inst.offset)
        ELSE Pair("", NoneOffset)

extended_format_IMPORT_NAME(o, insts) ==
  Pair("import_module(" \o At(insts, 0).argval \o ")", At(insts, 0).start_offset)

extended_format_IS_OP(o, insts) ==
  extended_format_infix_binary_op(
    o, insts, "%s " \o format_IS_OP(At(insts, 0).arg) \o " %s")

extended_format_RAISE_VARARGS_older(o, insts) ==
  LET raise_inst == At(insts, 0)
      argc == raise_inst.arg
  IN IF argc = 0 THEN Pair("reraise", raise_inst.start_offset)
     ELSE IF argc = 1
     THEN IF Len(insts) < 2 THEN RaisedResult
          ELSE
          LET exception_name_inst == At(insts, 1)
              exception_name == IF Truthy(exception_name_inst.tos_str)
                                THEN exception_name_inst.tos_str
                                ELSE exception_name_inst.argrepr
          IN IF exception_name # None
             THEN Pair("raise " \o exception_name \o "()",
                       exception_name_inst.start_offset)
             ELSE Pair(format_RAISE_VARARGS_older(argc),
                       exception_name_inst.start_offset)
     ELSE Pair(format_RAISE_VARARGS_older(argc), raise_inst.start_offset)

extended_format_RETURN_VALUE(o, insts) ==
  extended_format_unary_op(o, insts, "return %s")

extended_format_UNARY_INVERT(o, insts) ==
  extended_format_unary_op(o, insts, "~(%s)")

extended_format_UNARY_NEGATIVE(o, insts) ==
  extended_format_unary_op(o, insts, "-(%s)")

extended_format_UNARY_NOT(o, insts) ==
  extended_format_unary_op(o, insts, "not (%s)")

\* ---------------------------------------------------- the formatter table

\* opcode_extended_fmt_base[opname](opc, instructions)
opcode_extended_fmt_base(opname, o, insts) ==
  CASE opname = "BINARY_ADD" -> extended_format_BINARY_ADD(o, insts)
    [] opname = "BINARY_AND" -> extended_format_BINARY_AND(o, insts)
    [] opname = "BINARY_FLOOR_DIVIDE" -> extended_format_BINARY_FLOOR_DIVIDE(o, insts)
    [] opname = "BINARY_LSHIFT" -> extended_format_BINARY_LSHIFT(o, insts)
    [] opname = "BINARY_MODULO" -> extended_format_BINARY_MODULO(o, insts)
    [] opname = "BINARY_MULTIPLY" -> extended_format_BINARY_MULTIPLY(o, insts)
    [] opname = "BINARY_OR" -> extended_format_BINARY_OR(o, insts)
    [] opname = "BINARY_POWER" -> extended_format_BINARY_POWER(o, insts)
    [] opname = "BINARY_RSHIFT" -> extended_format_BINARY_RSHIFT(o, insts)
    [] opname = "BINARY_SUBTRACT" -> extended_format_BINARY_SUBTRACT(o, insts)
    [] opname = "BINARY_TRUE_DIVIDE" -> extended_format_BINARY_TRUE_DIVIDE(o, insts)
    [] opname = "BINARY_XOR" -> extended_format_BINARY_XOR(o, insts)
    [] opname = "BINARY_SUBSCR" -> extended_format_BINARY_SUBSCR(o, insts)
    [] opname = "BUILD_LIST" -> extended_format_BUILD_LIST(o, insts)
    [] opname = "BUILD_MAP" -> extended_format_BUILD_MAP(o, insts)
    [] opname = "BUILD_SET" -> extended_format_BUILD_SET(o, insts)
    [] opname = "BUILD_SLICE" -> extended_format_BUILD_SLICE(o, insts)
    [] opname = "BUILD_TUPLE" -> extended_format_BUILD_TUPLE(o, insts)
    [] opname = "CALL_FUNCTION" -> extended_format_CALL_FUNCTION(o, insts)
    [] opname = "COMPARE_OP" -> extended_format_COMPARE_OP(o, insts)
    [] opname = "IMPORT_NAME" -> extended_format_IMPORT_NAME(o, insts)
    [] opname = "INPLACE_ADD" -> extended_format_INPLACE_ADD(o, insts)
    [] opname = "INPLACE_AND" -> extended_format_INPLACE_AND(o, insts)
    [] opname = "INPLACE_FLOOR_DIVIDE" -> extended_format_INPLACE_FLOOR_DIVIDE(o, insts)
    [] opname = "INPLACE_LSHIFT" -> extended_format_INPLACE_LSHIFT(o, insts)
    [] opname = "INPLACE_MODULO" -> extended_format_INPLACE_MODULO(o, insts)
    [] opname = "INPLACE_MULTIPLY" -> extended_format_INPLACE_MULTIPLY(o, insts)
    [] opname = "INPLACE_OR" -> extended_format_INPLACE_OR(o, insts)
    [] opname = "INPLACE_POWER" -> extended_format_INPLACE_POWER(o, insts)
    [] opname = "INPLACE_RSHIFT" -> extended_format_INPLACE_RSHIFT(o, insts)
    [] opname = "INPLACE_SUBTRACT" -> extended_format_INPLACE_SUBTRACT(o, insts)
    [] opname = "INPLACE_TRUE_DIVIDE" -> extended_format_INPLACE_TRUE_DIVIDE(o, insts)
    [] opname = "INPLACE_XOR" -> extended_format_INPLACE_XOR(o, insts)
    [] opname = "IS_OP" -> extended_format_IS_OP(o, insts)
    [] opname = "LOAD_ATTR" -> extended_format_ATTR(o, insts)
    [] opname = "RAISE_VARARGS" -> extended_format_RAISE_VARARGS_older(o, insts)
    [] opname = "RETURN_VALUE" -> extended_format_RETURN_VALUE(o, insts)
    [] opname = "STORE_ATTR" -> extended_format_ATTR(o, insts)
    [] opname = "STORE_FAST" -> extended_format_store_op(o, insts)
    [] opname = "STORE_NAME" -> extended_format_store_op(o, insts)
    [] opname = "STORE_SUBSCR" -> extended_format_STORE_SUBSCR(o, insts)
    [] opname = "UNARY_INVERT" -> extended_format_UNARY_INVERT(o, insts)
    [] opname = "UNARY_NEGATIVE" -> extended_format_UNARY_NEGATIVE(o, insts)
    [] opname = "UNARY_NOT" -> extended_format_UNARY_NOT(o, insts)

\* ------------------------------------------- instructions and windows

Instruction(opname, arg, argval, argrepr, tos_str, offset, start_offset, is_jump_target) ==
  [opname |-> opname, opcode |-> opname, arg |-> arg, argval |-> argval,
   argrepr |-> argrepr, tos_str |-> tos_str, offset |-> offset,
   start_offset |-> start_offset, is_jump_target |-> is_jump_target]

\* Byte offset of the instruction at window index k: two bytes per
\* instruction, decreasing towards the start of the program.
Offset(k) == 2 * (MaxLen + 2 - k)

\* The name loaded by a load at window index k.
Name(k) == <<"x", "y", "z", "w", "v", "u", "t", "s", "r">>[k]

\* repr() of a constant longer than safe_repr's max_len.
LongRepr == "'0123456789abcdefghij'"

InfixNames ==
  {"BINARY_ADD", "BINARY_AND", "BINARY_FLOOR_DIVIDE", "BINARY_LSHIFT",
   "BINARY_MODULO", "BINARY_MULTIPLY", "BINARY_OR", "BINARY_POWER",
   "BINARY_RSHIFT", "BINARY_SUBTRACT", "BINARY_TRUE_DIVIDE", "BINARY_XOR",
   "INPLACE_ADD", "INPLACE_AND", "INPLACE_FLOOR_DIVIDE", "INPLACE_LSHIFT",
   "INPLACE_MODULO", "INPLACE_MULTIPLY", "INPLACE_OR", "INPLACE_POWER",
   "INPLACE_RSHIFT", "INPLACE_SUBTRACT", "INPLACE_TRUE_DIVIDE", "INPLACE_XOR"}

UnaryNames == {"UNARY_INVERT", "UNARY_NEGATIVE", "UNARY_NOT", "RETURN_VALUE"}

StoreNames == {"STORE_FAST", "STORE_NAME"}

AttrNames == {"LOAD_ATTR", "STORE_ATTR"}

EmptyLiteralNames == {"BUILD_LIST", "BUILD_MAP", "BUILD_SET"}

LiteralNames == EmptyLiteralNames \cup {"BUILD_TUPLE", "BUILD_SLICE"}

\* The classification sets and version of one bytecode version, as the
\* opcode tables hand them to every rule.
Opc(version_tuple) ==
  [version_tuple |-> version_tuple,
   operator_set |-> InfixNames \cup {"COMPARE_OP", "IS_OP", "BINARY_SUBSCR"}
                    \cup {"UNARY_INVERT", "UNARY_NEGATIVE", "UNARY_NOT"}
                    \cup {"LOAD_NAME", "LOAD_FAST", "LOAD_CONST", "LOAD_ATTR"}
                    \cup {"BUILD_TUPLE"},
   NAME_OPS |-> {"LOAD_NAME", "STORE_NAME"},
   CONST_OPS |-> {"LOAD_CONST"},
   LOCAL_OPS |-> {"LOAD_FAST", "STORE_FAST"},
   VARGS_OPS |-> {"BUILD_LIST", "BUILD_MAP", "BUILD_SET", "BUILD_TUPLE"},
   NARGS_OPS |-> {"CALL_FUNCTION"}]

Versions == {<<3, 5>>, <<3, 8>>}

\* Logical start offsets the decoder may have left on the instruction being
\* decorated.
OwnStart == {NoneOffset, Offset(0)}

\* The instructions a rule can be asked to decorate: every key of
\* opcode_extended_fmt_base, with the operands its rule reads.
Decorated ==
  {Instruction(n, 0, "", "", None, Offset(0), NoneOffset, FALSE) :
     n \in InfixNames \cup UnaryNames \cup {"BINARY_SUBSCR", "STORE_SUBSCR"}}
  \cup {Instruction("COMPARE_OP", 0, "<", "<", None, Offset(0), NoneOffset, FALSE)}
  \cup {Instruction("IS_OP", a, IntStr(a), IntStr(a), None, Offset(0), NoneOffset, FALSE) :
          a \in {0, 1}}
  \cup {Instruction(n, 0, "t", "t", None, Offset(0), NoneOffset, FALSE) :
          n \in StoreNames \cup AttrNames}
  \cup {Instruction(n, 0, "0", "", None, Offset(0), so, FALSE) :
          n \in EmptyLiteralNames \cup {"BUILD_TUPLE"}, so \in OwnStart}
  \cup {Instruction(n, MaxArgc, IntStr(MaxArgc), "", None, Offset(0), NoneOffset, FALSE) :
          n \in EmptyLiteralNames}
  \cup {Instruction("BUILD_TUPLE", a, IntStr(a), "", None, Offset(0), NoneOffset, FALSE) :
          a \in 1..MaxArgc}
  \cup {Instruction("BUILD_SLICE", a, IntStr(a), "", None, Offset(0), NoneOffset, FALSE) :
          a \in {2, 3}}
  \cup {Instruction("CALL_FUNCTION", a, IntStr(a), "", None, Offset(0), NoneOffset, FALSE) :
          a \in 0..MaxArgc}
  \cup {Instruction("IMPORT_NAME", 0, "os", "os", None, Offset(0), so, FALSE) :
          so \in OwnStart}
  \cup {Instruction("RAISE_VARARGS", a, IntStr(a), "", None, Offset(0), so, FALSE) :
          a \in {0, 2}, so \in OwnStart}
  \cup {Instruction("RAISE_VARARGS", 1, "1", "", None, Offset(0), NoneOffset, FALSE)}

\* Predecessors that may stand at any window index k >= 1: padding, a load
\* whose logical start is itself, an instruction that is no
\* pure-value-producer.
PlainOperands(k) ==
  {Instruction("CACHE", 0, "", "", None, Offset(k), NoneOffset, FALSE),
   Instruction("LOAD_NAME", 0, Name(k), Name(k), None, Offset(k), Offset(k), FALSE),
   Instruction("POP_TOP", 0, "", "", None, Offset(k), NoneOffset, FALSE)}

\* Predecessors within NearDepth: a load with no logical start offset, a
\* load that is a branch target, an already folded expression, a
\* variable-arity instruction with no pushed-value text, a folded call.
FoldedOperands(k) ==
  {Instruction("LOAD_NAME", 0, Name(k), Name(k), None, Offset(k), NoneOffset, FALSE),
   Instruction("LOAD_FAST", 0, Name(k), Name(k), None, Offset(k), Offset(k), TRUE),
   Instruction("BINARY_ADD", 0, "", "", Name(k + 2) \o " + " \o Name(k + 1),
               Offset(k), Offset(k + 2), FALSE),
   Instruction("BINARY_MODULO", 0, "", "", Name(k + 2) \o " % " \o Name(k + 1),
               Offset(k), Offset(k + 2), FALSE),
   Instruction("BUILD_TUPLE", 2, "2", "", None, Offset(k), NoneOffset, FALSE),
   Instruction("CALL_FUNCTION", 0, "0", "", Name(k + 1) \o "()",
               Offset(k), Offset(k + 1), FALSE)}

\* Predecessors the rules tell apart by name, which they do at index 1 only.
NearOperands ==
  {Instruction("IMPORT_NAME", 0, "os", "os", None, Offset(1), NoneOffset, FALSE),
   Instruction("IMPORT_FROM", 0, "path", "path", None, Offset(1), NoneOffset, FALSE),
   Instruction("MAKE_FUNCTION", 0, "0", "", None, Offset(1), NoneOffset, FALSE),
   Instruction("LOAD_CONST", 0, LongRepr, LongRepr, None, Offset(1), NoneOffset, FALSE),
   Instruction("INPLACE_ADD", 0, "", "", Name(3) \o " += " \o Name(2),
               Offset(1), Offset(3), FALSE),
   Instruction("CALL_FUNCTION", 2, "2", "", None, Offset(1), NoneOffset, FALSE)}

Operands(k) ==
  PlainOperands(k)
  \cup (IF k <= NearDepth THEN FoldedOperands(k) ELSE {})
  \cup (IF k = 1 THEN NearOperands ELSE {})

\* ------------------------------------------------------- the state machine

Init ==
  /\ opc \in {Opc(v) : v \in Versions}
  /\ instructions = <<>>
  /\ result = Idle

\* The decoder hands over the instruction to decorate.
Decode ==
  /\ instructions = <<>>
  /\ \E inst \in Decorated : instructions' = <<inst>>
  /\ UNCHANGED <<opc, result>>

\* The window is extended by the next earlier instruction.
Lookback ==
  /\ result = Idle
  /\ Len(instructions) >= 1
  /\ Len(instructions) < MaxLen
  /\ \E inst \in Operands(Len(instructions)) :
       instructions' = Append(instructions, inst)
  /\ UNCHANGED <<opc, result>>

\* The listing printer may ask for the reconstruction of an instruction
\* whose mnemonic is one of names.
CanFormat(names) ==
  /\ result = Idle
  /\ Len(instructions) >= 1
  /\ At(instructions, 0).opname \in names

\* The rule opcode_extended_fmt_base holds for the mnemonic, applied to the
\* window.
Reconstruct == opcode_extended_fmt_base(At(instructions, 0).opname, opc, instructions)

FormatInfix ==
  /\ CanFormat(InfixNames \cup {"COMPARE_OP", "IS_OP"})
  /\ result' = Reconstruct
  /\ UNCHANGED <<opc, instructions>>

FormatBinary ==
  /\ CanFormat({"BINARY_SUBSCR"})
  /\ result' = Reconstruct
  /\ UNCHANGED <<opc, instructions>>

FormatTernary ==
  /\ CanFormat({"STORE_SUBSCR"})
  /\ result' = Reconstruct
  /\ UNCHANGED <<opc, instructions>>

FormatUnary ==
  /\ CanFormat(UnaryNames)
  /\ result' = Reconstruct
  /\ UNCHANGED <<opc, instructions>>

FormatStore ==
  /\ CanFormat(StoreNames)
  /\ result' = Reconstruct
  /\ UNCHANGED <<opc, instructions>>

FormatAttr ==
  /\ CanFormat(AttrNames)
  /\ result' = Reconstruct
  /\ UNCHANGED <<opc, instructions>>

FormatLiteral ==
  /\ CanFormat(LiteralNames)
  /\ result' = Reconstruct
  /\ UNCHANGED <<opc, instructions>>

FormatCall ==
  /\ CanFormat({"CALL_FUNCTION"})
  /\ result' = Reconstruct
  /\ UNCHANGED <<opc, instructions>>

FormatImport ==
  /\ CanFormat({"IMPORT_NAME"})
  /\ result' = Reconstruct
  /\ UNCHANGED <<opc, instructions>>

FormatRaise ==
  /\ CanFormat({"RAISE_VARARGS"})
  /\ result' = Reconstruct
  /\ UNCHANGED <<opc, instructions>>

Next ==
  \/ Decode
  \/ Lookback
  \/ FormatInfix
  \/ FormatBinary
  \/ FormatTernary
  \/ FormatUnary
  \/ FormatStore
  \/ FormatAttr
  \/ FormatLiteral
  \/ FormatCall
  \/ FormatImport
  \/ FormatRaise

Spec == Init /\ [][Next]_vars

\* ------------------------------------------------------------ properties

\* A rule has been applied to the window.
Formatted == result # Idle

W(i) == At(instructions, i)

\* A load with no pushed-value text whose logical start, if it has one, is
\* itself: a plain pure-value-producer.
IsPlainLoad(inst) ==
  /\ inst.opname = "LOAD_NAME"
  /\ inst.tos_str = None
  /\ inst.start_offset \in {NoneOffset, inst.offset}

\* Resolves as an operand: pushed-value text, else an opcode of the operator
\* set.
Resolves(inst) == inst.tos_str # None \/ inst.opcode \in opc.operator_set

ResolvedText(inst) == IF inst.tos_str # None THEN inst.tos_str ELSE inst.argrepr

\* The window without its padding pseudo-instructions.
StripCache(insts) == SelectSeq(insts, LAMBDA inst : inst.opname # "CACHE")

\* C1: no rule of the table reads past its window or raises, whatever the
\* window: short windows and windows ending in CACHE included.
C1_NeverRaises == result.kind # "raise"

\* C2: what a rule returns is a pair, and it is either (non-empty text,
\* offset) or (empty text, null offset).
C2_TwoResultShapes ==
  result.kind \in {"pair", "None"} =>
    /\ result.kind = "pair"
    /\ (result.text = "") <=> (result.offset = NoneOffset)

\* C3: a window that reconstructs without its CACHE entries reconstructs to
\* the same (text, offset) with them.
C3_PaddingTolerance ==
  Formatted =>
    LET bare == opcode_extended_fmt_base(W(0).opname, opc, StripCache(instructions))
    IN (bare.kind = "pair" /\ bare.text # "") => result = bare

\* The source-level spelling of an infix opcode's operator.
SourceOperator(inst) ==
  CASE inst.opname \in {"BINARY_ADD"} -> "+"
    [] inst.opname \in {"BINARY_AND"} -> "&"
    [] inst.opname \in {"BINARY_FLOOR_DIVIDE"} -> "//"
    [] inst.opname \in {"BINARY_LSHIFT"} -> "<<"
    [] inst.opname \in {"BINARY_MODULO"} -> "%"
    [] inst.opname \in {"BINARY_MULTIPLY"} -> "*"
    [] inst.opname \in {"BINARY_OR"} -> "|"
    [] inst.opname \in {"BINARY_POWER"} -> "**"
    [] inst.opname \in {"BINARY_RSHIFT"} -> ">>"
    [] inst.opname \in {"BINARY_SUBTRACT"} -> "-"
    [] inst.opname \in {"BINARY_TRUE_DIVIDE"} -> "/"
    [] inst.opname \in {"BINARY_XOR"} -> "^"
    [] inst.opname \in {"INPLACE_ADD"} -> "+="
    [] inst.opname \in {"INPLACE_AND"} -> "&="
    [] inst.opname \in {"INPLACE_FLOOR_DIVIDE"} -> "//="
    [] inst.opname \in {"INPLACE_LSHIFT"} -> "<<="
    [] inst.opname \in {"INPLACE_MODULO"} -> "%="
    [] inst.opname \in {"INPLACE_MULTIPLY"} -> "*="
    [] inst.opname \in {"INPLACE_OR"} -> "|="
    [] inst.opname \in {"INPLACE_POWER"} -> "**="
    [] inst.opname \in {"INPLACE_RSHIFT"} -> ">>="
    [] inst.opname \in {"INPLACE_SUBTRACT"} -> "-="
    [] inst.opname \in {"INPLACE_TRUE_DIVIDE"} -> "/="
    [] inst.opname \in {"INPLACE_XOR"} -> "^="
    [] inst.opname = "COMPARE_OP" -> inst.argval
    [] inst.opname = "IS_OP" -> IF inst.arg = 0 THEN "is" ELSE "is not"

IsInfix(inst) == inst.opname \in InfixNames \cup {"COMPARE_OP", "IS_OP"}

\* Neither a pure-value-producer nor folded, and not padding.
Unresolved(inst) ==
  /\ inst.opname # "CACHE"
  /\ inst.opcode \notin opc.operator_set
  /\ inst.start_offset = NoneOffset

\* C4: an infix opcode over two plain loads, y pushed first and x second,
\* reconstructs to exactly "y <op> x" in the operator's source spelling.
C4_InfixText ==
  (/\ Formatted
   /\ IsInfix(W(0))
   /\ Len(instructions) >= 3
   /\ IsPlainLoad(W(1))
   /\ IsPlainLoad(W(2)))
  => /\ result.kind = "pair"
     /\ result.text = W(2).argrepr \o " " \o SourceOperator(W(0)) \o " " \o W(1).argrepr

\* C5: a binary rule whose nearer operand is a plain load and whose farther
\* operand is unresolved returns "... <op> <near>" (infix) or "<near>[...]"
\* (BINARY_SUBSCR) with the nearer operand's offset.
C5_PartialResolution ==
  (/\ Formatted
   /\ IsInfix(W(0)) \/ W(0).opname = "BINARY_SUBSCR"
   /\ Len(instructions) >= 3
   /\ IsPlainLoad(W(1))
   /\ Unresolved(W(2)))
  => result =
       Pair(IF W(0).opname = "BINARY_SUBSCR"
            THEN W(1).argrepr \o "[...]"
            ELSE "... " \o SourceOperator(W(0)) \o " " \o W(1).argrepr,
            W(1).offset)

\* C6: CALL_FUNCTION N over N plain loads pushed after a plain-load callee
\* reconstructs to callee(a1, ..., aN) in source order, a1 pushed first, with
\* the callee's offset.
C6_CallArgumentOrder ==
  (/\ Formatted
   /\ W(0).opname = "CALL_FUNCTION"
   /\ Len(instructions) >= W(0).arg + 2
   /\ \A k \in 1..(W(0).arg + 1) : IsPlainLoad(W(k)))
  => LET N == W(0).arg
     IN result =
          Pair(W(N + 1).argrepr
                 \o "(" \o Join(", ", [n \in 1..N |-> W(N + 1 - n).argrepr]) \o ")",
               W(N + 1).offset)

\* The window of the second operator of a left-nested chain: a plain load,
\* then the first operator, the same opcode, folded from the two loads that
\* follow it and starting at the farther one.
IsChain ==
  /\ IsInfix(W(0))
  /\ Len(instructions) >= 5
  /\ IsPlainLoad(W(1))
  /\ W(2).opname = W(0).opname
  /\ IsPlainLoad(W(3))
  /\ IsPlainLoad(W(4))
  /\ W(2).tos_str = W(4).argrepr \o " " \o SourceOperator(W(2)) \o " " \o W(3).argrepr
  /\ W(2).start_offset = W(4).offset

\* C7: the second operator of a chain a <op> b <op> c reconstructs to that
\* text, starting at the load of a.
C7_ChainedFolding ==
  (Formatted /\ IsChain)
  => result =
       Pair(W(2).tos_str \o " " \o SourceOperator(W(0)) \o " " \o W(1).argrepr,
            W(4).offset)

\* The text a unary-shaped opcode's template makes of its operand's text.
UnaryText(opname, operand) ==
  CASE opname = "UNARY_NEGATIVE" -> "-(" \o operand \o ")"
    [] opname = "UNARY_INVERT" -> "~(" \o operand \o ")"
    [] opname = "UNARY_NOT" -> "not (" \o operand \o ")"
    [] opname = "RETURN_VALUE" -> "return " \o operand

IsUnaryCase ==
  /\ Formatted
  /\ W(0).opname \in UnaryNames
  /\ Len(instructions) >= 2

C9_UnresolvableStoreTarget ==
  (/\ Formatted
   /\ W(0).opname \in StoreNames
   /\ Len(instructions) >= 2
   /\ W(1).opcode \in opc.VARGS_OPS \cup opc.NARGS_OPS
   /\ W(1).tos_str = None)
  => result = Pair("", NoneOffset)

\* The empty-literal spelling of a collection opcode.
EmptyLiteral(opname) ==
  CASE opname = "BUILD_LIST" -> "[]"
    [] opname = "BUILD_MAP" -> "{}"
    [] opname = "BUILD_SET" -> "set()"
    [] opname = "BUILD_TUPLE" -> "()"

IsEmptyLiteralCase ==
  /\ Formatted
  /\ W(0).opname \in EmptyLiteralNames \cup {"BUILD_TUPLE"}
  /\ W(0).arg = 0

\* C10: BUILD_LIST, BUILD_MAP, BUILD_SET and BUILD_TUPLE with count 0 return
\* "[]", "{}", "set()" and "()", and return for the whole window what they
\* return for the window of length 1 that holds the instruction alone.
C10_DegenerateLiterals ==
  IsEmptyLiteralCase =>
    /\ result.kind = "pair"
    /\ result.text = EmptyLiteral(W(0).opname)
    /\ result = opcode_extended_fmt_base(W(0).opname, opc, <<W(0)>>)

\* An empty set literal formatted with predecessors in its window.
C10_Witness ==
  /\ IsEmptyLiteralCase
  /\ W(0).opname = "BUILD_SET"
  /\ Len(instructions) >= 3
  /\ result.text = "set()"

\* A rule that collects its operands with get_arglist has been applied to an
\* instruction with a count of at least 1.
IsArglistCase ==
  /\ Formatted
  /\ W(0).opname \in {"BUILD_TUPLE", "BUILD_SLICE", "CALL_FUNCTION"}
  /\ W(0).arg >= 1

\* A load with no pushed-value text that starts at itself, branch target or
\* not: get_arglist resolves it and moves on to the next window index.
IsLoad(inst) ==
  /\ inst.opname \in {"LOAD_NAME", "LOAD_FAST"}
  /\ inst.tos_str = None
  /\ inst.start_offset \in {NoneOffset, inst.offset}

\* The window holds fewer than the N operands asked for.
WindowEndsEarly == Len(instructions) < W(0).arg + 1

\* The N operands are loads at indices 1..N and one of them, possibly the
\* last, is a branch target.
BranchTargetOperand ==
  /\ Len(instructions) >= W(0).arg + 1
  /\ \A k \in 1..W(0).arg : IsLoad(W(k))
  /\ \E k \in 1..W(0).arg : W(k).is_jump_target

\* C11: get_arglist with count N >= 1 returns a remaining-count > 0 when an
\* operand it resolves is a branch target, the last one included, or when
\* the window ends before N operands, and the rule then emits no text.
C11_ArglistStopsEarly ==
  (IsArglistCase /\ (WindowEndsEarly \/ BranchTargetOperand))
  => /\ ~get_arglist(instructions, 0, W(0).arg).raised
     /\ get_arglist(instructions, 0, W(0).arg).arg_count > 0
     /\ result = Pair("", NoneOffset)

\* The ternary rule has been applied to a subscript store whose nearest
\* operand resolves to its name and whose second operand is not a padding
\* entry, is not a pure value producer and has no logical start offset.
IsTernarySecondUnresolved ==
  /\ Formatted
  /\ W(0).opname = "STORE_SUBSCR"
  /\ Len(instructions) >= 3
  /\ IsPlainLoad(W(1))
  /\ Unresolved(W(2))

\* C12: the ternary rule (STORE_SUBSCR, "%s[%s] = %s") renders every operand
\* after the first unavailable one as "..." and keeps the text of every
\* operand already resolved: with the nearest operand resolved and the second
\* unresolved, the nearest operand's text fills its slot between the brackets.
C12_TernaryKeepsResolved ==
  IsTernarySecondUnresolved
  => /\ result.kind = "pair"
     /\ result.text = "...[" \o W(1).argrepr \o "] = ..."

\* The least index at or after i whose entry is not a CACHE, or the length of
\* the window when every entry from i on is a CACHE.
FirstNonCache(insts, i) ==
  LET rest == {k \in i..(Len(insts) - 1) : At(insts, k).opname # "CACHE"}
  IN IF rest = {} THEN Len(insts)
     ELSE CHOOSE k \in rest : \A m \in rest : k <= m

\* A rule that starts with skip_cache(instructions, 1) has been applied to a
\* window that has an index 1.
SkipCacheApplied ==
  /\ Formatted
  /\ W(0).opname \in {"BINARY_SUBSCR", "STORE_SUBSCR"}
  /\ Len(instructions) >= 2

\* C13: for every index i of the window skip_cache returns the least index
\* k >= i whose entry is not a CACHE, or the length of the window when every
\* entry from i on is a CACHE, and does not raise.
C13_SkipCacheResult ==
  SkipCacheApplied
  => \A i \in 0..(Len(instructions) - 1) :
       /\ skip_cache(instructions, i) # IndexError
       /\ skip_cache(instructions, i) = FirstNonCache(instructions, i)

\* get_arglist, applied by its rule with a count N >= 1, has returned a
\* remaining-count of 0.
ArglistComplete ==
  /\ IsArglistCase
  /\ ~get_arglist(instructions, 0, W(0).arg).raised
  /\ get_arglist(instructions, 0, W(0).arg).arg_count = 0

\* C14: whenever get_arglist returns a remaining-count of 0, the argument
\* list it returns has exactly N entries and the end index it returns is an
\* index of the window.
C14_CompleteArglist ==
  ArglistComplete
  => /\ Len(get_arglist(instructions, 0, W(0).arg).arglist) = W(0).arg
     /\ get_arglist(instructions, 0, W(0).arg).i < Len(instructions)

====
